---- MODULE Spec2Model ----
(***************************************************************************)
(* Creator Studio video editor: the timeline clip model and the preview    *)
(* playback synchronizer of VideoEditor (src/README.md, lines 151-1117)    *)
(* and of MultiTrackTimeline (src/unnamed/part_000, lines 328-720).        *)
(*                                                                         *)
(* All times are integers in milliseconds: the code keeps timeline times   *)
(* in seconds and converts with "* 1000" / "/ 1000" at the timer and       *)
(* Date.now() boundaries; a second is Sec milliseconds here.               *)
(*                                                                         *)
(* A React handler reads the state of the render that created it.  User    *)
(* event handlers are created by the latest render and read the current    *)
(* state; the callbacks that outlive a render (the playback interval, the  *)
(* document mousemove listener, the loadedmetadata listener, the unmount   *)
(* cleanup) carry the state they captured as part of their record.         *)
(***************************************************************************)
EXTENDS Integers, Sequences, FiniteSets, TLC

\* ---------------------------------------------------------------- constants
Sec == 1000
TickMs == 100
MinTimelineSec == 60
MinClipSec == 1
CaptionSec == 2
FrameRate == 30
ExportCapSec == 30

\* ------------------------------------------------------------------- bounds
\* ticks of wall clock the model runs for, and timeline edits (imports, drag
\* gestures, added and removed tracks, added captions, removed clips) the user
\* makes
MaxTicks == 2
MaxEdits == 2
\* timeline edits of a behaviour that only edits the timeline
MaxTimelineEdits == 3
\* exportVideo calls, and the timeline edits made before them
MaxExports == 1
MaxExportEdits == 3

MaxNow == MaxTicks * TickMs
SourceDurations == {5000, 61000}
SeekTimes == {4900, 59900}
DeltaTimes == {-1000, 5000, 60000}
MediaTypes == {"video", "audio"}
DragTypes == {"move", "resize-start", "resize-end"}
\* the overlay container in pixels, pointer displacements of a caption drag in
\* pixels, and the positions the timeline is clicked at around a caption
ContainerWidth == 200
ContainerHeight == 100
PointerDeltas == {-300, 100, 300}
CaptionSeekTimes == {1900, 2000, 3000, 4000, 4100}

VARIABLES
    mounted,              \* the VideoEditor component is mounted
    mediaFiles,           \* useState<MediaFile[]>
    tracks,               \* useState<Track[]>
    currentTime,          \* useState: the published position
    duration,             \* useState: the published timeline duration
    isPlaying,            \* useState
    activeAudioElements,  \* useState<HTMLAudioElement[]>: keys of audio players
    video,                \* the preview <video> element behind videoRef
    videoMetaPending,     \* the preview element still owes its loadedmetadata event
    audios,               \* the Audio players created by play that still run
    audioElementsRef,     \* Map item id -> player
    audioTimeoutsRef,     \* Map item id -> timeout handle
    timeouts,             \* pending setTimeout callbacks (browser side)
    intervals,            \* pending setInterval callbacks (browser side)
    timelineIntervalRef,  \* {} for null, else {handle}
    playbackStartTimeRef, \* Date.now() at play
    now,                  \* wall clock
    pendingLoads,         \* imports whose loadedmetadata has not fired yet
    dragData,             \* {} for null, else {drag record with its captured props}
    nextId,               \* next fresh clip id
    nTracks,              \* tracks added so far (keeps their ids distinct)
    nEdits,               \* timeline edits made so far
    editLimit,            \* timeline edits the behaviour may make
    captions,             \* useState<Caption[]>
    durationTimeouts,     \* pending setTimeout(..., 0) of handleItemRemoval
    captionDrag,          \* CaptionOverlay dragData: {} for null, else {drag record}
    isExporting,          \* useState
    export                \* the resources and progress of the last exportVideo call

vars == <<mounted, mediaFiles, tracks, currentTime, duration, isPlaying,
          activeAudioElements, video, videoMetaPending, audios, audioElementsRef,
          audioTimeoutsRef, timeouts, intervals, timelineIntervalRef,
          playbackStartTimeRef, now, pendingLoads, dragData, nextId, nTracks,
          nEdits, editLimit, captions, durationTimeouts, captionDrag,
          isExporting, export>>

\* ------------------------------------------------------------------ helpers
Max(a, b) == IF a >= b THEN a ELSE b
Min(a, b) == IF a <= b THEN a ELSE b
SetMin(S) == CHOOSE x \in S : \A y \in S : x <= y
SetMax(S) == CHOOSE x \in S : \A y \in S : x >= y
Range(s) == {s[i] : i \in DOMAIN s}

\* useState initial value of tracks
InitialTracks ==
    << [id |-> "video-track", type |-> "video", items |-> <<>>],
       [id |-> "audio-track", type |-> "audio", items |-> <<>>],
       [id |-> "subtitle-track", type |-> "subtitle", items |-> <<>>] >>

ItemEnd(item) == item.startTime + item.clipDuration

\* a window that includes its end
InWindowInclusive(item, t) == t >= item.startTime /\ t <= ItemEnd(item)

\* the window test "currentTime >= item.startTime && currentTime < item.startTime + item.clipDuration"
InWindow(item, t) == t >= item.startTime /\ t < ItemEnd(item)

AllItems(trs) == UNION {Range(trs[i].items) : i \in DOMAIN trs}

\* calculateTimelineDuration over the tracks the calling render captured
calculateTimelineDurationUnfloored(trs) ==
    LET ends == {ItemEnd(it) : it \in AllItems(trs)}
    IN IF ends = {} THEN 0 ELSE Max(0, SetMax(ends))

calculateTimelineDurationOfLastClip(trs) ==
    LET nonEmpty == {i \in DOMAIN trs : trs[i].items # <<>>}
        last == trs[SetMax(nonEmpty)].items
        maxEndTime == IF nonEmpty = {} THEN 0 ELSE Max(0, ItemEnd(last[Len(last)]))
    IN Max(maxEndTime, MinTimelineSec * Sec)

calculateTimelineDuration(trs) ==
    LET ends == {ItemEnd(it) : it \in AllItems(trs)}
        maxEndTime == IF ends = {} THEN 0 ELSE Max(0, SetMax(ends))
    IN Max(maxEndTime, MinTimelineSec * Sec)

IsVideoTrack(tr) == tr.type = "video"
IsAudioTrack(tr) == tr.type = "audio"
VideoTracks(trs) == SelectSeq(trs, IsVideoTrack)
AudioTracks(trs) == SelectSeq(trs, IsAudioTrack)

\* "videoTracks.length > 0 && videoTracks[0].items.length > 0"
HasFirstVideoItem(trs) ==
    /\ Len(VideoTracks(trs)) > 0
    /\ Len(VideoTracks(trs)[1].items) > 0
FirstVideoItem(trs) == VideoTracks(trs)[1].items[1]

\* ------------------------------------------------------------ media elements
\* An Audio player created by play for one clip: "new Audio(item.url)".
\* time is the last value given to currentTime, startedAt the wall clock of play(),
\* duration the length of the source, clipEnd the timeline end the clip had when
\* the element was started for it (0 while paused).
\* A player that is paused is never played again (play creates new ones), and one
\* that has run out of source stops by itself: audios keeps the others.
Key(e) == [track |-> e.track, item |-> e.item, startedAt |-> e.startedAt]

\* a media element produces output while it is not paused and has source left
Running(e) == ~e.paused /\ e.time + (now - e.startedAt) < e.duration

\* HTMLMediaElement.pause(): the element keeps the position it reached
PauseElement(e) ==
    IF e.paused THEN e
    ELSE [e EXCEPT !.paused = TRUE, !.startedAt = 0, !.clipEnd = 0,
                   !.time = Min(e.time + (now - e.startedAt), e.duration)]

\* the preview element before any source is loaded
NoVideo ==
    [src |-> 0, duration |-> 0, paused |-> TRUE, time |-> 0, startedAt |-> 0,
     clipEnd |-> 0]

\* "videoRef.current.src = url": the element loads the new source, paused at 0
LoadVideo(item) ==
    [src |-> item.id, duration |-> item.duration, paused |-> TRUE, time |-> 0,
     startedAt |-> 0, clipEnd |-> 0]

\* a seek to the timeline time instead of the position in the source
SourcePositionIsTimelineTime(item, t) == t

\* "clipStartOffset + relativeTime"
SourcePosition(item, t) == item.clipStartOffset + (t - item.startTime)

\* "videoRef.current.currentTime = ...": a seek of the element, which keeps the
\* position within its source
SeekElement(e, pos) ==
    [e EXCEPT !.time = Min(pos, e.duration), !.startedAt = IF e.paused THEN 0 ELSE now]

\* HTMLMediaElement.play() for a clip that ends at clipEnd on the timeline
PlayElement(e, clipEnd) ==
    [e EXCEPT !.paused = FALSE, !.startedAt = now, !.clipEnd = clipEnd]

\* ------------------------------------------------------------- stopAllAudio
\* "activeAudioElements.forEach(audio => { audio.pause(); audio.currentTime = 0 })"
\* over the activeAudioElements the calling render captured: the players left running
StoppedAudios(active) == {e \in audios : Key(e) \notin active}

\* "audioTimeoutsRef.current.forEach(timeout => clearTimeout(timeout))"
ClearedTimeouts == timeouts \ {m.timer : m \in audioTimeoutsRef}

\* "clearInterval(timelineIntervalRef.current)"
ClearedIntervals == {iv \in intervals : iv.handle \notin timelineIntervalRef}

\* stopAllAudio as called by a render whose activeAudioElements is active
stopAllAudio(active) ==
    /\ audios' = StoppedAudios(active)
    /\ activeAudioElements' = {}
    /\ timeouts' = ClearedTimeouts
    /\ audioTimeoutsRef' = {}
    /\ audioElementsRef' = {}

\* pauseMultipleTracks of a render whose activeAudioElements is active,
\* leaving the preview element as v
pauseMultipleTracks(active, v) ==
    /\ video' = v
    /\ stopAllAudio(active)
    /\ intervals' = ClearedIntervals
    /\ timelineIntervalRef' = {}

UnchangedTimeline == UNCHANGED <<mediaFiles, tracks, pendingLoads, dragData, nextId,
                                 nTracks, nEdits,
                                 editLimit, captions, durationTimeouts,
                                 captionDrag, isExporting, export>>

\* ------------------------------------------------------- playMultipleTracks
\* a tie-break: on each audio track only the first clip in track order containing t
AudioPlacesFirstPerTrack(trs, t) ==
    {pl \in UNION {{<<i, j>> : j \in DOMAIN trs[i].items} : i \in DOMAIN trs} :
        /\ trs[pl[1]].type = "audio"
        /\ InWindow(trs[pl[1]].items[pl[2]], t)
        /\ \A k \in 1 .. (pl[2] - 1) : ~InWindow(trs[pl[1]].items[k], t)}

\* the places <<track index, item index>> of the audio clips play starts at t
AudioPlaces(trs, t) ==
    {pl \in UNION {{<<i, j>> : j \in DOMAIN trs[i].items} : i \in DOMAIN trs} :
        /\ trs[pl[1]].type = "audio"
        /\ InWindow(trs[pl[1]].items[pl[2]], t)}

NewAudio(trs, pl, t) ==
    LET item == trs[pl[1]].items[pl[2]]
    IN [track |-> trs[pl[1]].id, item |-> item.id, startedAt |-> now,
        time |-> SourcePosition(item, t), duration |-> item.duration,
        paused |-> FALSE, clipEnd |-> ItemEnd(item)]

\* "setTimeout(() => {...}, remainingClipTime * 1000)"
StopTimeout(trs, pl, t) ==
    LET item == trs[pl[1]].items[pl[2]]
        remainingClipTime == item.clipDuration - (t - item.startTime)
    IN [item |-> item.id, elem |-> Key(NewAudio(trs, pl, t)),
        due |-> now + remainingClipTime]

Before(p, q) == p[1] < q[1] \/ (p[1] = q[1] /\ p[2] < q[2])

\* Map.set(item.id, ...) in forEach order: the last place of an id keeps the entry
LastPlaces(trs, t) ==
    {p \in AudioPlaces(trs, t) :
        \A q \in AudioPlaces(trs, t) :
            trs[q[1]].items[q[2]].id = trs[p[1]].items[p[2]].id => ~Before(p, q)}

\* the preview element after the "Play primary video" block
PlayedVideo(trs, t) ==
    IF ~HasFirstVideoItem(trs) THEN video
    ELSE LET first == FirstVideoItem(trs)
             v == IF video.src # first.id THEN LoadVideo(first) ELSE video
         IN IF InWindow(first, t)
            THEN PlayElement(SeekElement(v, SourcePosition(first, t)), ItemEnd(first))
            ELSE v

NewInterval ==
    [handle |-> now, due |-> now + TickMs, startTimelinePosition |-> currentTime,
     tracks |-> tracks, duration |-> duration,
     activeAudioElements |-> activeAudioElements]

playMultipleTracks ==
    LET started == {NewAudio(tracks, p, currentTime) : p \in AudioPlaces(tracks, currentTime)}
    IN
    /\ video' = PlayedVideo(tracks, currentTime)
    /\ videoMetaPending' =
          (videoMetaPending \/ (HasFirstVideoItem(tracks) /\ video.src # FirstVideoItem(tracks).id))
    /\ audios' = StoppedAudios(activeAudioElements) \cup started
    /\ activeAudioElements' = {Key(e) : e \in started}
    /\ audioElementsRef' =
          {[item |-> NewAudio(tracks, p, currentTime).item,
            elem |-> Key(NewAudio(tracks, p, currentTime))] : p \in LastPlaces(tracks, currentTime)}
    /\ audioTimeoutsRef' =
          {[item |-> StopTimeout(tracks, p, currentTime).item,
            timer |-> StopTimeout(tracks, p, currentTime)] : p \in LastPlaces(tracks, currentTime)}
    /\ timeouts' = ClearedTimeouts \cup
          {StopTimeout(tracks, p, currentTime) : p \in AudioPlaces(tracks, currentTime)}
    /\ playbackStartTimeRef' = now
    /\ intervals' = ClearedIntervals \cup {NewInterval}
    /\ timelineIntervalRef' = {NewInterval.handle}

\* togglePlayPause, from the play/pause button or the play overlay
TogglePlayPause ==
    /\ mounted
    /\ \/ /\ isPlaying
          /\ pauseMultipleTracks(activeAudioElements, PauseElement(video))
          /\ UNCHANGED <<videoMetaPending, playbackStartTimeRef>>
       \/ /\ ~isPlaying
          /\ playMultipleTracks
    /\ isPlaying' = ~isPlaying
    /\ UNCHANGED <<mounted, currentTime, duration, now>>
    /\ UnchangedTimeline

\* a seek that moves the position and the elements but stays in Playing
HandleSeekKeepsPlaying(time) ==
    /\ mounted
    /\ dragData = {}
    /\ time <= duration
    /\ currentTime' = time
    /\ LET paused == PauseElement(video)
       IN pauseMultipleTracks(activeAudioElements,
             IF HasFirstVideoItem(tracks) /\ InWindow(FirstVideoItem(tracks), time)
             THEN SeekElement(paused, SourcePosition(FirstVideoItem(tracks), time))
             ELSE paused)
    /\ isPlaying' = isPlaying
    /\ UNCHANGED <<mounted, duration, videoMetaPending, playbackStartTimeRef, now>>
    /\ UnchangedTimeline

\* --------------------------------------------------------------- handleSeek
\* handleTimelineClick -> onSeek(time): a click on the timeline header, ignored
\* while a drag is in progress; time = percentage of the published duration
HandleSeek(time) ==
    /\ mounted
    /\ dragData = {}
    /\ time <= duration
    /\ currentTime' = time
    /\ LET paused == PauseElement(video)
       IN pauseMultipleTracks(activeAudioElements,
             IF HasFirstVideoItem(tracks) /\ InWindow(FirstVideoItem(tracks), time)
             THEN SeekElement(paused, SourcePosition(FirstVideoItem(tracks), time))
             ELSE paused)
    /\ isPlaying' = FALSE
    /\ UNCHANGED <<mounted, duration, videoMetaPending, playbackStartTimeRef, now>>
    /\ UnchangedTimeline

\* ------------------------------------------------------- the interval callback
\* the position read from the clock of the preview element while it plays
TickPositionFromVideo(iv) ==
    IF video.paused
    THEN iv.startTimelinePosition + (now - playbackStartTimeRef)
    ELSE video.time + (now - video.startedAt)

\* "startTimelinePosition + (Date.now() - playbackStartTimeRef.current) / 1000"
TickPosition(iv) == iv.startTimelinePosition + (now - playbackStartTimeRef)

\* "Check if video clip should stop"
VideoClipEnded(iv, pos) ==
    /\ HasFirstVideoItem(iv.tracks)
    /\ pos >= ItemEnd(FirstVideoItem(iv.tracks))
    /\ ~video.paused

\* "hasActiveClips" over the video and audio tracks the interval captured
HasActiveClips(iv, pos) ==
    \E i \in DOMAIN iv.tracks :
        /\ iv.tracks[i].type \in {"video", "audio"}
        /\ \E item \in Range(iv.tracks[i].items) : pos < ItemEnd(item)

\* a stop test that looks at the clips only
AutoStopWhenNoClipIsLeft(iv, pos) == ~HasActiveClips(iv, pos)

\* "!hasActiveClips || newTimelinePosition >= duration"
AutoStop(iv, pos) == ~HasActiveClips(iv, pos) \/ pos >= iv.duration

Tick(iv) ==
    /\ iv \in intervals
    /\ iv.due <= now
    /\ LET newTimelinePosition == TickPosition(iv)
           v == IF VideoClipEnded(iv, newTimelinePosition)
                THEN PauseElement(video) ELSE video
       IN /\ currentTime' = newTimelinePosition
          /\ IF AutoStop(iv, newTimelinePosition)
             THEN /\ pauseMultipleTracks(iv.activeAudioElements, PauseElement(v))
                  /\ isPlaying' = FALSE
             ELSE /\ video' = v
                  /\ intervals' = (intervals \ {iv}) \cup {[iv EXCEPT !.due = iv.due + TickMs]}
                  /\ UNCHANGED <<isPlaying, audios, activeAudioElements, timeouts,
                                 audioTimeoutsRef, audioElementsRef, timelineIntervalRef>>
    /\ UNCHANGED <<mounted, duration, videoMetaPending, playbackStartTimeRef, now>>
    /\ UnchangedTimeline

TimelineTick == \E iv \in intervals : Tick(iv)

\* ---------------------------------------------------- the per-clip stop timeout
StopTimeoutFires(tm) ==
    /\ tm \in timeouts
    /\ tm.due <= now
    /\ timeouts' = timeouts \ {tm}
    /\ audios' = {e \in audios : Key(e) # tm.elem}
    /\ audioElementsRef' = {m \in audioElementsRef : m.item # tm.item}
    /\ activeAudioElements' = activeAudioElements \ {tm.elem}
    /\ UNCHANGED <<mounted, currentTime, duration, isPlaying, video, videoMetaPending,
                   audioTimeoutsRef, intervals, timelineIntervalRef,
                   playbackStartTimeRef, now>>
    /\ UnchangedTimeline

AudioStopTimeout == \E tm \in timeouts : StopTimeoutFires(tm)

\* ------------------------------------------------------------------ the clock
\* Timers fire when they are due, in any order among those due together; the
\* clock moves to the next due time, or by one tick period while only media play.
Dues == {tm.due : tm \in timeouts} \cup {iv.due : iv \in intervals}

AdvanceTime ==
    /\ \/ Dues # {} /\ SetMin(Dues) > now /\ now' = SetMin(Dues)
       \/ Dues = {} /\ (Running(video) \/ \E e \in audios : Running(e)) /\ now' = now + TickMs
    /\ now' <= MaxNow
    /\ audios' = {e \in audios : e.time + (now' - e.startedAt) < e.duration}
    /\ UNCHANGED <<mounted, currentTime, duration, isPlaying, activeAudioElements, video,
                   videoMetaPending, audioElementsRef, audioTimeoutsRef, timeouts,
                   intervals, timelineIntervalRef, playbackStartTimeRef>>
    /\ UnchangedTimeline

\* an import that shows the file at once, as a clip of unknown (zero) duration
HandleFilesAddsClipAtOnce(type, mediaDuration, dropped) ==
    /\ mounted
    /\ pendingLoads = {}
    /\ nEdits < editLimit
    /\ nEdits' = nEdits + 1
    /\ LET mediaFile == [id |-> nextId, type |-> type, duration |-> 0,
                         startTime |-> 0, clipDuration |-> 0, clipStartOffset |-> 0]
       IN /\ mediaFiles' = Append(mediaFiles, mediaFile)
          /\ tracks' = [i \in DOMAIN tracks |->
                          IF tracks[i].type = type
                          THEN [tracks[i] EXCEPT !.items = Append(@, mediaFile)]
                          ELSE tracks[i]]
    /\ nextId' = nextId + 1
    /\ UNCHANGED <<mounted, pendingLoads, currentTime, duration, isPlaying,
                   activeAudioElements, video, videoMetaPending, audios,
                   audioElementsRef, audioTimeoutsRef, timeouts, intervals,
                   timelineIntervalRef, playbackStartTimeRef, now, dragData,
                   nTracks,
                   editLimit, captions, durationTimeouts,
                   captionDrag, isExporting, export>>

\* -------------------------------------------------------------- handleFiles
\* handleFiles for one video or audio file: the duration is read from a detached
\* media element, and the clip is created by its loadedmetadata listener.  The
\* listener computes the new timeline duration with calculateTimelineDuration of
\* the render that created handleFiles: the first render when the file was
\* dropped (handleDrop is memoised with no dependencies), the current one when it
\* was picked through the file input.
HandleFiles(type, mediaDuration, dropped) ==
    /\ mounted
    /\ pendingLoads = {}
    /\ nEdits < editLimit
    /\ nEdits' = nEdits + 1
    /\ pendingLoads' = pendingLoads \cup
          {[type |-> type, duration |-> mediaDuration,
            newTimelineDuration |->
                calculateTimelineDuration(IF dropped THEN InitialTracks ELSE tracks)]}
    /\ UNCHANGED <<mounted, mediaFiles, tracks, currentTime, duration, isPlaying,
                   activeAudioElements, video, videoMetaPending, audios,
                   audioElementsRef, audioTimeoutsRef, timeouts, intervals,
                   timelineIntervalRef, playbackStartTimeRef, now, dragData, nextId,
                   nTracks,
                   editLimit, captions, durationTimeouts,
                   captionDrag, isExporting, export>>

\* "track.type === trackType ? { ...track, items: [...track.items, mediaFile] } : track"
AddToTracks(trs, mediaFile) ==
    [i \in DOMAIN trs |->
        IF trs[i].type = mediaFile.type
        THEN [trs[i] EXCEPT !.items = Append(@, mediaFile)]
        ELSE trs[i]]

\* the loadedmetadata listener of handleFiles
LoadedMetadata(p) ==
    /\ mounted
    /\ p \in pendingLoads
    /\ LET mediaFile == [id |-> nextId, type |-> p.type, duration |-> p.duration,
                         startTime |-> 0, clipDuration |-> p.duration,
                         clipStartOffset |-> 0]
       IN /\ mediaFiles' = Append(mediaFiles, mediaFile)
          /\ tracks' = AddToTracks(tracks, mediaFile)
          /\ duration' = p.newTimelineDuration
          /\ IF p.type = "video"
             THEN video' = LoadVideo(mediaFile) /\ videoMetaPending' = TRUE
             ELSE UNCHANGED <<video, videoMetaPending>>
    /\ pendingLoads' = pendingLoads \ {p}
    /\ nextId' = nextId + 1
    /\ UNCHANGED <<mounted, currentTime, isPlaying, activeAudioElements, audios,
                   audioElementsRef, audioTimeoutsRef, timeouts, intervals,
                   timelineIntervalRef, playbackStartTimeRef, now, dragData, nTracks, nEdits,
                   editLimit, captions, durationTimeouts,
                   captionDrag, isExporting, export>>

MediaLoaded == \E p \in pendingLoads : LoadedMetadata(p)

\* the media element of handleFiles never fires loadedmetadata (an unreadable
\* file): handleFiles listens to nothing else, so the import ends without effect
LoadFailed(p) ==
    /\ mounted
    /\ p \in pendingLoads
    /\ pendingLoads' = pendingLoads \ {p}
    /\ UNCHANGED <<mounted, mediaFiles, tracks, currentTime, duration, isPlaying,
                   activeAudioElements, video, videoMetaPending, audios,
                   audioElementsRef, audioTimeoutsRef, timeouts, intervals,
                   timelineIntervalRef, playbackStartTimeRef, now, dragData, nextId,
                   nTracks, nEdits,
                   editLimit, captions, durationTimeouts,
                   captionDrag, isExporting, export>>

\* onLoadedMetadata of the preview <video>
VideoLoadedMetadata ==
    /\ mounted
    /\ videoMetaPending
    /\ videoMetaPending' = FALSE
    /\ duration' = Max(video.duration, calculateTimelineDuration(tracks))
    /\ UNCHANGED <<mounted, mediaFiles, tracks, currentTime, isPlaying,
                   activeAudioElements, video, audios, audioElementsRef,
                   audioTimeoutsRef, timeouts, intervals, timelineIntervalRef,
                   playbackStartTimeRef, now, pendingLoads, dragData, nextId, nTracks, nEdits,
                   editLimit, captions, durationTimeouts,
                   captionDrag, isExporting, export>>

\* ---------------------------------------------------------- handleTracksUpdate
\* handleTracksUpdate(updatedTracks) of a render whose tracks is captured:
\* the duration is recalculated from the captured tracks
handleTracksUpdate(updatedTracks, captured) ==
    /\ tracks' = updatedTracks
    /\ duration' = calculateTimelineDuration(captured)

UnchangedPlayback == UNCHANGED <<mounted, currentTime, isPlaying, activeAudioElements,
                                 video, videoMetaPending, audios, audioElementsRef,
                                 audioTimeoutsRef, timeouts, intervals,
                                 timelineIntervalRef, playbackStartTimeRef, now,
                                 captionDrag, isExporting, export>>

\* ------------------------------------------------------ MultiTrackTimeline drag
\* handleMouseDown on a clip body or on one of its resize handles.  The effect
\* that follows registers the document listeners of this render, which keep its
\* tracks and duration props for the whole gesture.
HandleMouseDown(i, j, type) ==
    /\ mounted
    /\ dragData = {}
    /\ nEdits < editLimit
    /\ i \in DOMAIN tracks
    /\ j \in DOMAIN tracks[i].items
    /\ dragData' = {[itemId |-> tracks[i].items[j].id, trackId |-> tracks[i].id,
                     type |-> type,
                     initialStartTime |-> tracks[i].items[j].startTime,
                     initialDuration |-> tracks[i].items[j].clipDuration,
                     tracks |-> tracks, duration |-> duration]}
    /\ nEdits' = nEdits + 1
    /\ UNCHANGED <<mediaFiles, tracks, duration, pendingLoads, nextId, nTracks,
                   editLimit, captions, durationTimeouts>>
    /\ UnchangedPlayback

\* the item a mousemove of the gesture d produces for deltaTime
DraggedItemKeptOnTimeline(d, item, deltaTime) ==
    IF d.type = "move"
    THEN [item EXCEPT !.startTime =
            Max(0, Min(d.initialStartTime + deltaTime, d.duration - item.clipDuration))]
    ELSE IF d.type = "resize-end"
    THEN LET minDuration == MinClipSec * Sec
             newDuration == Max(minDuration, d.initialDuration + deltaTime)
             maxDuration == d.duration - item.startTime
         IN [item EXCEPT !.clipDuration = Min(newDuration, Min(maxDuration, item.duration))]
    ELSE LET newStartTime == Max(0, d.initialStartTime + deltaTime)
             maxStartTimeChange == d.initialDuration - MinClipSec * Sec
             actualStartTimeChange == Min(deltaTime, maxStartTimeChange)
             newDuration == d.initialDuration - actualStartTimeChange
         IN [item EXCEPT !.startTime = newStartTime,
                         !.clipDuration = Max(MinClipSec * Sec, newDuration)]

DraggedItem(d, item, deltaTime) ==
    IF d.type = "move"
    THEN [item EXCEPT !.startTime = Max(0, d.initialStartTime + deltaTime)]
    ELSE IF d.type = "resize-end"
    THEN LET minDuration == MinClipSec * Sec
             newDuration == Max(minDuration, d.initialDuration + deltaTime)
             maxDuration == d.duration - item.startTime
         IN [item EXCEPT !.clipDuration = Min(newDuration, Min(maxDuration, item.duration))]
    ELSE LET newStartTime == Max(0, d.initialStartTime + deltaTime)
             maxStartTimeChange == d.initialDuration - MinClipSec * Sec
             actualStartTimeChange == Min(deltaTime, maxStartTimeChange)
             newDuration == d.initialDuration - actualStartTimeChange
         IN [item EXCEPT !.startTime = newStartTime,
                         !.clipDuration = Max(MinClipSec * Sec, newDuration)]

\* "tracks.map(track => track.id !== dragData.trackId ? track : {...})"
DraggedTracks(d, deltaTime) ==
    [i \in DOMAIN d.tracks |->
        IF d.tracks[i].id # d.trackId THEN d.tracks[i]
        ELSE [d.tracks[i] EXCEPT !.items =
                [j \in DOMAIN @ |->
                    IF @[j].id # d.itemId THEN @[j]
                    ELSE DraggedItem(d, @[j], deltaTime)]]]

HandleMouseMove(deltaTime) ==
    /\ mounted
    /\ \E d \in dragData : handleTracksUpdate(DraggedTracks(d, deltaTime), d.tracks)
    /\ UNCHANGED <<mediaFiles, pendingLoads, dragData, nextId, nTracks, nEdits,
                   editLimit, captions, durationTimeouts>>
    /\ UnchangedPlayback

HandleMouseUp ==
    /\ mounted
    /\ dragData # {}
    /\ dragData' = {}
    /\ UNCHANGED <<mediaFiles, tracks, duration, pendingLoads, nextId, nTracks, nEdits,
                   editLimit, captions, durationTimeouts>>
    /\ UnchangedPlayback

\* addTrack: the id is type-track-Date.now(); a counter keeps the ids distinct
AddTrack(type) ==
    /\ mounted
    /\ nEdits < editLimit
    /\ handleTracksUpdate(
          Append(tracks, [id |-> type \o "-track-" \o ToString(nTracks + 1),
                          type |-> type, items |-> <<>>]),
          tracks)
    /\ nEdits' = nEdits + 1
    /\ nTracks' = nTracks + 1
    /\ UNCHANGED <<mediaFiles, pendingLoads, dragData, nextId,
                   editLimit, captions, durationTimeouts>>
    /\ UnchangedPlayback

\* ------------------------------------------------------------------ captions
\* the caption addCaption creates at the published position
NewCaption ==
    [id |-> nextId, startTime |-> currentTime,
     endTime |-> currentTime + CaptionSec * Sec, x |-> 50, y |-> 80]

\* captionMediaFile: the clip of a caption ('audio' is the placeholder type the
\* code gives it; it has no clipStartOffset, which every reader takes as 0)
CaptionClip(caption) ==
    [id |-> caption.id, type |-> "audio",
     duration |-> caption.endTime - caption.startTime,
     startTime |-> caption.startTime,
     clipDuration |-> caption.endTime - caption.startTime,
     clipStartOffset |-> 0]

\* "track.type === 'subtitle' ? { ...track, items: [...track.items, captionMediaFile] } : track"
AddToSubtitleTracks(trs, clip) ==
    [i \in DOMAIN trs |->
        IF trs[i].type = "subtitle"
        THEN [trs[i] EXCEPT !.items = Append(@, clip)]
        ELSE trs[i]]

\* addCaption: the caption joins the caption list and its clip joins every
\* subtitle track; the duration is not recalculated
AddCaption ==
    /\ mounted
    /\ nEdits < editLimit
    /\ captions' = Append(captions, NewCaption)
    /\ tracks' = AddToSubtitleTracks(tracks, CaptionClip(NewCaption))
    /\ nextId' = nextId + 1
    /\ nEdits' = nEdits + 1
    /\ UNCHANGED <<mediaFiles, duration, pendingLoads, dragData, nTracks, editLimit,
                   durationTimeouts>>
    /\ UnchangedPlayback

\* ----------------------------------------------------------------- thumbnail
\* "duration: 2, // 2 seconds"
ThumbnailSec == 2

\* thumbnailMediaFile: "type: 'video'", at the beginning, 2 seconds long
thumbnailMediaFile ==
    [id |-> nextId, type |-> "video", duration |-> ThumbnailSec * Sec,
     startTime |-> 0, clipDuration |-> ThumbnailSec * Sec, clipStartOffset |-> 0]

\* "track.id === 'thumbnail-track' ? { ...track, items: [thumbnailMediaFile] } : track"
ReplaceThumbnail(trs, thumbnail) ==
    [i \in DOMAIN trs |->
        IF trs[i].id = "thumbnail-track"
        THEN [trs[i] EXCEPT !.items = <<thumbnail>>]
        ELSE trs[i]]

\* onThumbnailCreate, from "Create" in the thumbnail generator with a preview
onThumbnailCreate ==
    /\ mounted
    /\ dragData = {}
    /\ nEdits < editLimit
    /\ tracks' = ReplaceThumbnail(tracks, thumbnailMediaFile)
    /\ nextId' = nextId + 1
    /\ nEdits' = nEdits + 1
    /\ UNCHANGED <<mediaFiles, duration, pendingLoads, dragData, nTracks, editLimit,
                   captions, durationTimeouts>>
    /\ UnchangedPlayback

\* ------------------------------------------------------------------- removal
\* "filter(x => x.id !== itemId)"
WithoutIdBySplice(seq, itemId) ==
    IF \E k \in DOMAIN seq : seq[k].id = itemId
    THEN LET first == SetMin({k \in DOMAIN seq : seq[k].id = itemId})
         IN [k \in 1 .. (Len(seq) - 1) |-> IF k < first THEN seq[k] ELSE seq[k + 1]]
    ELSE SubSeq(seq, 1, Len(seq) - 1)

WithoutId(seq, itemId) ==
    LET Keep(e) == e.id # itemId
    IN SelectSeq(seq, Keep)

\* "track.id === trackId ? { ...track, items: track.items.filter(...) } : track"
RemoveFromTracks(trs, trackId, itemId) ==
    [i \in DOMAIN trs |->
        IF trs[i].id = trackId
        THEN [trs[i] EXCEPT !.items = WithoutId(@, itemId)]
        ELSE trs[i]]

\* handleItemRemoval: the clip leaves the track trackId, the media library and
\* the caption list; the duration is recalculated by a setTimeout(..., 0) whose
\* callback is of the render that handled the click, with the tracks of before
\* the removal
HandleItemRemoval(trackId, itemId) ==
    /\ mounted
    /\ dragData = {}
    /\ tracks' = RemoveFromTracks(tracks, trackId, itemId)
    /\ mediaFiles' = WithoutId(mediaFiles, itemId)
    /\ captions' = WithoutId(captions, itemId)
    /\ durationTimeouts' = durationTimeouts \cup {[tracks |-> tracks]}
    /\ nEdits < editLimit
    /\ nEdits' = nEdits + 1
    /\ UNCHANGED <<duration, pendingLoads, dragData, nextId, nTracks, editLimit>>
    /\ UnchangedPlayback

\* the callback of the setTimeout(..., 0) of handleItemRemoval
DurationTimeoutFires(tm) ==
    /\ tm \in durationTimeouts
    /\ durationTimeouts' = durationTimeouts \ {tm}
    /\ duration' = IF mounted THEN calculateTimelineDuration(tm.tracks) ELSE duration
    /\ UNCHANGED <<mediaFiles, tracks, pendingLoads, dragData, nextId, nTracks, nEdits,
                   editLimit, captions>>
    /\ UnchangedPlayback

\* removeTrack offered on every track, whatever the number of tracks of its kind
RemoveTrackUnguarded(trackId) ==
    /\ mounted
    /\ dragData = {}
    /\ \E i \in DOMAIN tracks : tracks[i].id = trackId
    /\ LET Keep(track) == track.id # trackId
       IN handleTracksUpdate(SelectSeq(tracks, Keep), tracks)
    /\ nEdits < editLimit
    /\ nEdits' = nEdits + 1
    /\ UNCHANGED <<mediaFiles, pendingLoads, dragData, nextId, nTracks, editLimit,
                   captions, durationTimeouts>>
    /\ UnchangedPlayback

\* the remove button of a track is rendered while another track of its type
\* exists; removeTrack hands the filtered tracks to onTracksUpdate
RemoveTrack(trackId) ==
    /\ mounted
    /\ dragData = {}
    /\ \E i \in DOMAIN tracks :
          /\ tracks[i].id = trackId
          /\ Cardinality({k \in DOMAIN tracks : tracks[k].type = tracks[i].type}) > 1
    /\ trackId # "thumbnail-track"
    /\ LET Keep(track) == track.id # trackId
       IN handleTracksUpdate(SelectSeq(tracks, Keep), tracks)
    /\ nEdits < editLimit
    /\ nEdits' = nEdits + 1
    /\ UNCHANGED <<mediaFiles, pendingLoads, dragData, nextId, nTracks, editLimit,
                   captions, durationTimeouts>>
    /\ UnchangedPlayback

\* ------------------------------------------------------------ CaptionOverlay
\* "captions.filter(caption => currentTime >= caption.startTime && currentTime <= caption.endTime)"
VisibleCaptionsBeforeEnd(caps, t) ==
    LET Visible(caption) == t >= caption.startTime /\ t < caption.endTime
    IN SelectSeq(caps, Visible)

VisibleCaptions(caps, t) ==
    LET Visible(caption) == t >= caption.startTime /\ t <= caption.endTime
    IN SelectSeq(caps, Visible)

\* "Math.max(0, Math.min(100, ...))"
ClampPercentAtZeroOnly(p) == Max(0, p)

ClampPercent(p) == Max(0, Min(100, p))

\* "prev.map(cap => cap.id === id ? { ...cap, ...updates } : cap)" with the
\* updates { x, y } of the overlay drag
onCaptionUpdate(caps, id, newX, newY) ==
    [k \in DOMAIN caps |->
        IF caps[k].id = id THEN [caps[k] EXCEPT !.x = newX, !.y = newY] ELSE caps[k]]

\* handleMouseDown of the overlay, on a caption it renders: the drag record
\* keeps the caption's position in pixels of the container
CaptionMouseDown(k) ==
    /\ mounted
    /\ captionDrag = {}
    /\ dragData = {}
    /\ k \in DOMAIN VisibleCaptions(captions, currentTime)
    /\ LET caption == VisibleCaptions(captions, currentTime)[k]
       IN captionDrag' = {[id |-> caption.id,
                           initialX |-> (caption.x * ContainerWidth) \div 100,
                           initialY |-> (caption.y * ContainerHeight) \div 100]}
    /\ UNCHANGED <<mediaFiles, tracks, duration, pendingLoads, dragData, nextId, nTracks,
                   nEdits, editLimit, captions, durationTimeouts, isExporting, export>>
    /\ UNCHANGED <<mounted, currentTime, isPlaying, activeAudioElements, video,
                   videoMetaPending, audios, audioElementsRef, audioTimeoutsRef, timeouts,
                   intervals, timelineIntervalRef, playbackStartTimeRef, now>>

\* handleMouseMove of the overlay for a pointer displacement in pixels
CaptionMouseMove(deltaX, deltaY) ==
    /\ mounted
    /\ \E d \in captionDrag :
          captions' = onCaptionUpdate(captions, d.id,
                         ClampPercent(((d.initialX + deltaX) * 100) \div ContainerWidth),
                         ClampPercent(((d.initialY + deltaY) * 100) \div ContainerHeight))
    /\ UNCHANGED <<mediaFiles, tracks, duration, pendingLoads, dragData, nextId, nTracks,
                   nEdits, editLimit, durationTimeouts, captionDrag, isExporting, export>>
    /\ UNCHANGED <<mounted, currentTime, isPlaying, activeAudioElements, video,
                   videoMetaPending, audios, audioElementsRef, audioTimeoutsRef, timeouts,
                   intervals, timelineIntervalRef, playbackStartTimeRef, now>>

\* handleMouseUp of the overlay
CaptionMouseUp ==
    /\ mounted
    /\ captionDrag # {}
    /\ captionDrag' = {}
    /\ UNCHANGED <<mediaFiles, tracks, duration, pendingLoads, dragData, nextId, nTracks,
                   nEdits, editLimit, captions, durationTimeouts, isExporting, export>>
    /\ UNCHANGED <<mounted, currentTime, isPlaying, activeAudioElements, video,
                   videoMetaPending, audios, audioElementsRef, audioTimeoutsRef, timeouts,
                   intervals, timelineIntervalRef, playbackStartTimeRef, now>>

\* -------------------------------------------------------------- exportVideo
\* "tracks.filter(track => track.type === 'video' && track.items.length > 0)"
ExportVideoTracks(trs) ==
    LET NonEmptyVideo(tr) == tr.type = "video" /\ Len(tr.items) > 0
    IN SelectSeq(trs, NonEmptyVideo)

\* "tracks.filter(track => track.type === 'audio' && track.items.length > 0)"
ExportAudioTracks(trs) ==
    LET NonEmptyAudio(tr) == tr.type = "audio" /\ Len(tr.items) > 0
    IN SelectSeq(trs, NonEmptyAudio)

\* "audioTracks.flatMap(track => track.items.map(...))"
RECURSIVE FlatItems(_)
FlatItems(trs) ==
    IF trs = <<>> THEN <<>> ELSE Head(trs).items \o FlatItems(Tail(trs))

\* the state of one exportVideo call: the values its closure captured, the
\* resources it holds, its progress and what it showed the user
RejectedExportWithCanvas(n) ==
    [call |-> n, phase |-> "rejected", alerts |-> 1, artifacts |-> 0,
     videoItem |-> <<>>, audioItems |-> <<>>, captions |-> <<>>,
     canvas |-> TRUE, sourceVideo |-> "none", audioElements |-> <<>>,
     audioContext |-> "none", recorder |-> "none", frameInterval |-> FALSE,
     stopTimers |-> {}, frames |-> 0, drift |-> 0, videoDrawn |-> FALSE, drawn |-> {},
     uncaught |-> FALSE]

\* the call that found no video clip: the alert, and nothing created
RejectedExport(n) ==
    [call |-> n, phase |-> "rejected", alerts |-> 1, artifacts |-> 0,
     videoItem |-> <<>>, audioItems |-> <<>>, captions |-> <<>>,
     canvas |-> FALSE, sourceVideo |-> "none", audioElements |-> <<>>,
     audioContext |-> "none", recorder |-> "none", frameInterval |-> FALSE,
     stopTimers |-> {}, frames |-> 0, drift |-> 0, videoDrawn |-> FALSE, drawn |-> {},
     uncaught |-> FALSE]

\* the call up to its first await: the canvas and the source video element
\* exist, the element loads the first clip of the first non-empty video track
StartedExport(n, trs, caps) ==
    [call |-> n, phase |-> "loadingVideo", alerts |-> 0, artifacts |-> 0,
     videoItem |-> <<ExportVideoTracks(trs)[1].items[1]>>,
     audioItems |-> FlatItems(ExportAudioTracks(trs)), captions |-> caps,
     canvas |-> TRUE, sourceVideo |-> "loading", audioElements |-> <<>>,
     audioContext |-> "none", recorder |-> "none", frameInterval |-> FALSE,
     stopTimers |-> {}, frames |-> 0, drift |-> 0, videoDrawn |-> FALSE, drawn |-> {},
     uncaught |-> FALSE]

\* the other variables of the editor, which no step of an export writes
UnchangedEditor ==
    UNCHANGED <<mounted, mediaFiles, tracks, currentTime, duration, isPlaying,
                activeAudioElements, video, videoMetaPending, audios, audioElementsRef,
                audioTimeoutsRef, timeouts, intervals, timelineIntervalRef,
                playbackStartTimeRef, now, pendingLoads, dragData, nextId, nTracks,
                nEdits, editLimit, captions, durationTimeouts, captionDrag>>

\* the Export Video button, disabled while isExporting
ExportVideo ==
    /\ mounted
    /\ ~isExporting
    /\ dragData = {} /\ captionDrag = {}
    /\ Cardinality(export) < MaxExports
    /\ IF ExportVideoTracks(tracks) = <<>>
       THEN /\ export' = export \cup {RejectedExport(Cardinality(export) + 1)}
            /\ isExporting' = FALSE
       ELSE /\ export' = export \cup
                           {StartedExport(Cardinality(export) + 1, tracks, captions)}
            /\ isExporting' = TRUE
    /\ UnchangedEditor

\* catch: "alert('Export failed. Please try again.'); setIsExporting(false)"
Caught(e) == [e EXCEPT !.phase = "failed", !.alerts = @ + 1]

\* the steps from the resolved audio loads to the running render interval:
\* the recorder is created and started, every audio element gets its stop
\* timeout and plays, the source video plays, the interval is installed
Recording(e) ==
    [e EXCEPT !.phase = "recording", !.recorder = "recording",
              !.sourceVideo = "playing",
              !.audioElements = [i \in DOMAIN e.audioItems |-> "playing"],
              !.stopTimers = DOMAIN e.audioItems,
              !.frameInterval = TRUE]

\* "new MediaRecorder(...)" or "mediaRecorder.start()" throws
RecorderFailed(e) == Caught(e)

\* the continuation after Promise.all(audioSources): records or fails
RecordOrFail(e) == {Recording(e), RecorderFailed(e)}

\* loadedmetadata of the source video: the AudioContext and its destination are
\* created and every audio element starts loading; without audio clips the
\* export goes on to record at once.  "new AudioContext()" may throw.
ExportVideoLoaded(e) ==
    /\ e \in export
    /\ e.phase = "loadingVideo"
    /\ e.sourceVideo = "loading"
    /\ \E next \in
          {Caught([e EXCEPT !.sourceVideo = "ready"])} \cup
          (LET loading == [e EXCEPT !.sourceVideo = "ready", !.audioContext = "open",
                                    !.phase = "loadingAudio",
                                    !.audioElements =
                                        [i \in DOMAIN e.audioItems |-> "loading"]]
           IN IF e.audioItems = <<>> THEN RecordOrFail(loading) ELSE {loading}) :
          /\ export' = (export \ {e}) \cup {next}
          /\ isExporting' = (next.phase # "failed")
    /\ UnchangedEditor

\* the source video fires error, not loadedmetadata: the awaited promise never
\* settles
ExportVideoLoadError(e) ==
    /\ e \in export
    /\ e.phase = "loadingVideo"
    /\ e.sourceVideo = "loading"
    /\ export' = (export \ {e}) \cup {[e EXCEPT !.sourceVideo = "error"]}
    /\ UNCHANGED isExporting
    /\ UnchangedEditor

\* loadedmetadata of the audio element i: it is connected to the audio graph
\* (createMediaElementSource may throw, which rejects Promise.all); after the
\* last one the export goes on to record
ExportAudioLoaded(e, i) ==
    /\ e \in export
    /\ e.phase = "loadingAudio"
    /\ i \in DOMAIN e.audioElements
    /\ e.audioElements[i] = "loading"
    /\ \E next \in
          {Caught([e EXCEPT !.audioElements[i] = "ready"])} \cup
          (LET ready == [e EXCEPT !.audioElements[i] = "ready"]
           IN IF \A j \in DOMAIN ready.audioElements : ready.audioElements[j] = "ready"
              THEN RecordOrFail(ready) ELSE {ready}) :
          /\ export' = (export \ {e}) \cup {next}
          /\ isExporting' = (next.phase # "failed")
    /\ UnchangedEditor

\* the audio element i fires error, not loadedmetadata: its promise, and with
\* it Promise.all, never settles
ExportAudioLoadError(e, i) ==
    /\ e \in export
    /\ e.phase = "loadingAudio"
    /\ i \in DOMAIN e.audioElements
    /\ e.audioElements[i] = "loading"
    /\ export' = (export \ {e}) \cup {[e EXCEPT !.audioElements[i] = "error"]}
    /\ UNCHANGED isExporting
    /\ UnchangedEditor

\* "Math.min(videoItem.clipDuration, 30)"
ExportLimitUncapped(videoItem) == videoItem.clipDuration

ExportLimit(videoItem) == Min(videoItem.clipDuration, ExportCapSec * Sec)

\* exportTime is a floating-point sum of frames times 1/30: "exportTime >= t"
\* and "exportTime <= t", where drift is the sign of the rounding error of the
\* sum, which decides the comparison when frames / 30 is exactly t
AtLeast(frames, drift, t) ==
    frames * Sec > FrameRate * t \/ (frames * Sec = FrameRate * t /\ drift >= 0)
AtMost(frames, drift, t) ==
    frames * Sec < FrameRate * t \/ (frames * Sec = FrameRate * t /\ drift <= 0)

\* the times exportTime is compared with
Thresholds(e) ==
    {ExportLimit(e.videoItem[1]), e.videoItem[1].clipDuration} \cup
    {e.captions[k].startTime : k \in DOMAIN e.captions} \cup
    {e.captions[k].endTime : k \in DOMAIN e.captions}

\* the rounding errors the sum can have after the given number of frames (only
\* a sum compared with its exact value needs one)
Drifts(e, frames) ==
    IF frames > 0 /\ \E t \in Thresholds(e) : frames * Sec = FrameRate * t
    THEN {-1, 0, 1} ELSE {0}

\* the stop timeout of the audio element i is due before the next frame
StopTimerDue(e, i) ==
    i \in e.stopTimers /\
    (~e.frameInterval \/ e.audioItems[i].clipDuration * FrameRate <= (e.frames + 1) * Sec)

\* the callback of the stop timeout of the audio element i
ExportAudioStop(e, i) ==
    /\ e \in export
    /\ StopTimerDue(e, i)
    /\ export' = (export \ {e}) \cup
                    {[e EXCEPT !.stopTimers = @ \ {i}, !.audioElements[i] = "paused"]}
    /\ UNCHANGED isExporting
    /\ UnchangedEditor

\* the callback of frameInterval: one frame is drawn (the video while
\* exportTime <= clipDuration, every caption whose interval holds exportTime),
\* exportTime advances by 1/30, and at the limit the export stops
ExportFrame(e) ==
    /\ e \in export
    /\ e.frameInterval
    /\ \A i \in e.stopTimers : ~StopTimerDue(e, i)
    /\ \E drift \in Drifts(e, e.frames + 1) :
          LET drawn == [e EXCEPT
                  !.videoDrawn = AtMost(e.frames, e.drift, e.videoItem[1].clipDuration),
                  !.drawn = {e.captions[k].id : k \in
                               {m \in DOMAIN e.captions :
                                   /\ AtLeast(e.frames, e.drift, e.captions[m].startTime)
                                   /\ AtMost(e.frames, e.drift, e.captions[m].endTime)}},
                  !.frames = e.frames + 1,
                  !.drift = drift]
          IN export' = (export \ {e}) \cup
                {IF AtLeast(e.frames + 1, drift, ExportLimit(e.videoItem[1]))
                 THEN [drawn EXCEPT
                         !.phase = "stopping",
                         !.frameInterval = FALSE,
                         !.recorder = "stopped",
                         !.audioElements = [i \in DOMAIN @ |-> "paused"],
                         !.audioContext = "closed"]
                 ELSE drawn}
    /\ UNCHANGED isExporting
    /\ UnchangedEditor

\* the callback of frameInterval throws (drawImage on a broken source): the
\* exception is outside the try of exportVideo, nothing handles it and the
\* interval stays installed
ExportFrameThrows(e) ==
    /\ e \in export
    /\ e.frameInterval
    /\ ~e.uncaught
    /\ \A i \in e.stopTimers : ~StopTimerDue(e, i)
    /\ export' = (export \ {e}) \cup {[e EXCEPT !.uncaught = TRUE]}
    /\ UNCHANGED isExporting
    /\ UnchangedEditor

\* mediaRecorder.onstop: the recording becomes a blob, the download link is
\* clicked, isExporting is cleared
ExportRecorderStopped(e) ==
    /\ e \in export
    /\ e.recorder = "stopped"
    /\ export' = (export \ {e}) \cup
                    {[e EXCEPT !.phase = "done", !.recorder = "inactive",
                               !.artifacts = @ + 1]}
    /\ isExporting' = FALSE
    /\ UnchangedEditor

\* ------------------------------------------------------------------- unmount
\* The cleanup of the mount effect: it belongs to the first render, whose
\* activeAudioElements is the empty initial state.  The preview element leaves
\* the document, which pauses it.
Unmount ==
    /\ mounted
    /\ mounted' = FALSE
    /\ intervals' = ClearedIntervals
    /\ stopAllAudio({})
    /\ video' = PauseElement(video)
    /\ UNCHANGED <<currentTime, duration, isPlaying, videoMetaPending,
                   timelineIntervalRef, playbackStartTimeRef, now>>
    /\ UnchangedTimeline

\* ------------------------------------------------------------- specification
\* the state of the first render
InitEditor ==
    /\ mounted = TRUE
    /\ mediaFiles = <<>>
    /\ tracks = InitialTracks
    /\ currentTime = 0
    /\ duration = 0
    /\ isPlaying = FALSE
    /\ activeAudioElements = {}
    /\ video = NoVideo
    /\ videoMetaPending = FALSE
    /\ audios = {}
    /\ audioElementsRef = {}
    /\ audioTimeoutsRef = {}
    /\ timeouts = {}
    /\ intervals = {}
    /\ timelineIntervalRef = {}
    /\ playbackStartTimeRef = 0
    /\ now = 0
    /\ pendingLoads = {}
    /\ dragData = {}
    /\ nextId = 1
    /\ nTracks = 0
    /\ nEdits = 0
    /\ captions = <<>>
    /\ durationTimeouts = {}
    /\ captionDrag = {}
    /\ isExporting = FALSE
    /\ export = {}

Init == InitEditor /\ editLimit = MaxEdits

Import == \E type \in MediaTypes, d \in SourceDurations, dropped \in BOOLEAN :
              HandleFiles(type, d, dropped)
Seek == \E time \in SeekTimes : HandleSeek(time)
MouseDown == \E i \in DOMAIN tracks, type \in DragTypes :
                 \E j \in DOMAIN tracks[i].items : HandleMouseDown(i, j, type)
MouseMove == \E deltaTime \in DeltaTimes : HandleMouseMove(deltaTime)
NewTrack == \E type \in {"video", "audio", "subtitle"} : AddTrack(type)

Next ==
    \/ Import
    \/ MediaLoaded
    \/ VideoLoadedMetadata
    \/ TogglePlayPause
    \/ Seek
    \/ TimelineTick
    \/ AudioStopTimeout
    \/ AdvanceTime
    \/ MouseDown
    \/ MouseMove
    \/ HandleMouseUp
    \/ NewTrack
    \/ Unmount

Spec == Init /\ [][Next]_vars

\* ------------------------------------------------- editing without playback
\* The editor while nothing plays: the timeline is built and edited, clips,
\* captions and tracks are removed.
InitEdit == InitEditor /\ editLimit = MaxTimelineEdits

MediaLoadError == \E p \in pendingLoads : LoadFailed(p)
RemoveItem == \E i \in DOMAIN tracks : \E j \in DOMAIN tracks[i].items :
                  HandleItemRemoval(tracks[i].id, tracks[i].items[j].id)
DurationTimeout == \E tm \in durationTimeouts : DurationTimeoutFires(tm)
DeleteTrack == \E i \in DOMAIN tracks : RemoveTrack(tracks[i].id)

NextEdit ==
    \/ Import
    \/ MediaLoaded
    \/ MediaLoadError
    \/ VideoLoadedMetadata
    \/ Seek
    \/ MouseDown
    \/ MouseMove
    \/ HandleMouseUp
    \/ NewTrack
    \/ AddCaption
    \/ onThumbnailCreate
    \/ RemoveItem
    \/ DurationTimeout
    \/ DeleteTrack

SpecEdit == InitEdit /\ [][NextEdit]_vars

\* ------------------------------------------------------ the caption overlay
\* Captions are added at positions the timeline was clicked at, dragged over
\* the preview and removed.
SeekNearCaption == \E time \in CaptionSeekTimes : HandleSeek(time)
CaptionGrab == \E k \in DOMAIN captions : CaptionMouseDown(k)
CaptionDragged == \E deltaX \in PointerDeltas, deltaY \in PointerDeltas :
                      CaptionMouseMove(deltaX, deltaY)

NextCaption ==
    \/ NewTrack
    \/ SeekNearCaption
    \/ AddCaption
    \/ CaptionGrab
    \/ CaptionDragged
    \/ CaptionMouseUp
    \/ RemoveItem
    \/ DurationTimeout

SpecCaption == Init /\ [][NextCaption]_vars

\* ------------------------------------------------------------------- export
\* The timeline is built, then exported.  An exportVideo call reads the tracks
\* and captions its closure captured at the click and nothing of the editor
\* afterwards, so the edits are those made before the first call, and the
\* button is pressed once the imports have loaded.  The published position and
\* duration, which the export does not read, stay as the imports leave them.
InitExport == InitEditor /\ editLimit = MaxExportEdits

BuildTimeline ==
    /\ export = {}
    /\ \/ Import
       \/ MediaLoaded
       \/ MouseDown
       \/ MouseMove
       \/ HandleMouseUp
       \/ NewTrack
       \/ AddCaption
       \/ RemoveItem

SourceLoaded == \E e \in export : ExportVideoLoaded(e)
SourceLoadError == \E e \in export : ExportVideoLoadError(e)
AudioSourceLoaded == \E e \in export : \E i \in DOMAIN e.audioElements : ExportAudioLoaded(e, i)
AudioSourceLoadError ==
    \E e \in export : \E i \in DOMAIN e.audioElements : ExportAudioLoadError(e, i)
AudioStopTimer == \E e \in export : \E i \in e.stopTimers : ExportAudioStop(e, i)
FrameTick == \E e \in export : ExportFrame(e)
FrameTickThrows == \E e \in export : ExportFrameThrows(e)
RecorderStopped == \E e \in export : ExportRecorderStopped(e)

StartExport == pendingLoads = {} /\ ExportVideo

NextExport ==
    \/ BuildTimeline
    \/ StartExport
    \/ SourceLoaded
    \/ SourceLoadError
    \/ AudioSourceLoaded
    \/ AudioSourceLoadError
    \/ AudioStopTimer
    \/ FrameTick
    \/ FrameTickThrows
    \/ RecorderStopped

SpecExport == InitExport /\ [][NextExport]_vars

\* the export under fair scheduling: every load ends, with loadedmetadata or
\* with error, and the browser runs the timers and the recorder's onstop
InitExportFair == InitEditor /\ editLimit = MaxEdits

ExportFairness ==
    /\ WF_vars(SourceLoaded \/ SourceLoadError)
    /\ WF_vars(AudioSourceLoaded \/ AudioSourceLoadError)
    /\ WF_vars(AudioStopTimer)
    /\ WF_vars(FrameTick)
    /\ WF_vars(RecorderStopped)

SpecExportFair == InitExportFair /\ [][NextExport]_vars /\ ExportFairness

\* ------------------------------------------------- removal during playback
NextRemove ==
    \/ Import
    \/ MediaLoaded
    \/ TogglePlayPause
    \/ Seek
    \/ TimelineTick
    \/ AudioStopTimeout
    \/ AdvanceTime
    \/ RemoveItem
    \/ DurationTimeout

SpecRemove == Init /\ [][NextRemove]_vars

\* ------------------------------------------- playback under fair scheduling
\* The browser runs every timer callback that is due and the wall clock goes
\* on.  The clock of the model ends at MaxNow, so a session is started only
\* where its last tick within the clock publishes a position at which the
\* interval callback stops.
SessionCanEnd ==
    /\ now + TickMs <= MaxNow
    /\ LET pos == currentTime + (MaxNow - now)
       IN \/ pos >= duration
          \/ \A i \in DOMAIN tracks :
                tracks[i].type \in {"video", "audio"} =>
                   \A j \in DOMAIN tracks[i].items : pos >= ItemEnd(tracks[i].items[j])

PlayOrPause == (isPlaying \/ SessionCanEnd) /\ TogglePlayPause

\* clicks on the timeline header one and two ticks before the end of a 5 s
\* clip and of the 60 s timeline
SeekTimesNearEnd == {4800, 59800, 59900}
SeekNearEnd == \E time \in SeekTimesNearEnd : HandleSeek(time)

NextLive ==
    \/ Import
    \/ MediaLoaded
    \/ VideoLoadedMetadata
    \/ PlayOrPause
    \/ SeekNearEnd
    \/ TimelineTick
    \/ AudioStopTimeout
    \/ AdvanceTime
    \/ MouseDown
    \/ MouseMove
    \/ HandleMouseUp
    \/ NewTrack
    \/ Unmount

Fairness ==
    /\ WF_vars(TimelineTick)
    /\ WF_vars(AudioStopTimeout)
    /\ WF_vars(AdvanceTime)

SpecLive == Init /\ [][NextLive]_vars /\ Fairness

\* ------------------------------------------------------------------- claims
\* the half-open window [timelineStart, timelineStart + clipDuration) of a clip
Contains(item, t) == t \in item.startTime .. (item.startTime + item.clipDuration - 1)

\* the audio players and the preview element that produce output
PlayingAudios == {e \in audios : Running(e)}
VideoPlaying == Running(video)

\* C1: a clip started by play is never still playing once the published position
\* has passed the timeline end (timelineStart + clipDuration) it was started
\* with, whichever of its stop timer and the tick fires first.
C1_NeverPlaysPastClipEnd ==
    /\ \A e \in PlayingAudios : currentTime <= e.clipEnd
    /\ VideoPlaying => currentTime <= video.clipEnd

\* C2: whenever the editor is Stopped, no per-clip stop timer and no tick interval
\* of an earlier playback session is still pending.
C2_StoppedLeavesNoTimer ==
    ~isPlaying => (timeouts = {} /\ intervals = {})

\* a step that ends a playing session: isPlaying is reset, or the editor unmounts
LeavesPlaying == isPlaying /\ (~isPlaying' \/ (mounted /\ ~mounted'))

\* C3: on every Playing -> Stopped transition (pause, seek, the automatic stop
\* issued from the tick, unmount while playing) the preview video and every
\* audio player active at that moment are paused.
C3_StopPausesEveryElement ==
    [][LeavesPlaying => (video'.paused /\ audios' = {})]_vars

\* pos has reached the total duration, or no clip of any track ends after pos
EndOfContent(pos) ==
    \/ pos >= calculateTimelineDuration(tracks)
    \/ \A item \in AllItems(tracks) : pos >= ItemEnd(item)

\* C4: while Playing, a tick stops playback exactly when the position it publishes
\* has reached the total duration of the timeline or no clip of any track is left
\* at or after it (end of content); nothing else than a tick, a pause or a seek
\* leaves Playing.
C4_AutoStopAtEndOfContent ==
    [][/\ (isPlaying /\ TimelineTick) => (~isPlaying' <=> EndOfContent(currentTime'))
       /\ (isPlaying /\ ~isPlaying') => (TimelineTick \/ TogglePlayPause \/ Seek)]_vars

\* the clip of the first video track that is active at t under the tie-break of
\* the specification: the first clip in track order whose window contains t
ContainingPlaces(items, t) == {j \in DOMAIN items : Contains(items[j], t)}
HasActiveVideoClip(t) ==
    /\ Len(VideoTracks(tracks)) > 0
    /\ ContainingPlaces(VideoTracks(tracks)[1].items, t) # {}
ActiveVideoClip(t) ==
    LET items == VideoTracks(tracks)[1].items
    IN items[SetMin(ContainingPlaces(items, t))]

\* C5 as stated: a seek to targetTime leaves the editor Stopped with the position
\* at targetTime, puts the preview element at sourceOffset + (targetTime -
\* timelineStart) of the video clip active at targetTime, and starts no element.
C5_SeekRepositionsActiveClip ==
    [][\A time \in SeekTimes : HandleSeek(time) =>
          /\ ~isPlaying'
          /\ currentTime' = time
          /\ HasActiveVideoClip(time) =>
                video'.time = ActiveVideoClip(time).clipStartOffset
                                 + (time - ActiveVideoClip(time).startTime)
          /\ video'.paused
          /\ audios' \subseteq audios]_vars

\* C5 amended: only the first clip of the first video track is looked at; the
\* preview element is put at its source position, within the source the element
\* holds, when its window contains targetTime, and is left where the stop paused
\* it otherwise.
C5_SeekRepositionsFirstClip ==
    [][\A time \in SeekTimes : HandleSeek(time) =>
          /\ ~isPlaying'
          /\ currentTime' = time
          /\ IF HasFirstVideoItem(tracks) /\ Contains(FirstVideoItem(tracks), time)
             THEN video'.time =
                     Min(FirstVideoItem(tracks).clipStartOffset
                            + (time - FirstVideoItem(tracks).startTime),
                         video.duration)
             ELSE video'.time = PauseElement(video).time
          /\ video'.paused
          /\ audios' \subseteq audios]_vars

\* a seek into a moved first clip, from a playing session, went to its source position
C5_Witness ==
    /\ ~isPlaying /\ video.paused /\ playbackStartTimeRef > 0
    /\ HasFirstVideoItem(tracks)
    /\ FirstVideoItem(tracks).startTime > 0
    /\ Contains(FirstVideoItem(tracks), currentTime)
    /\ currentTime \in SeekTimes
    /\ video.time = currentTime - FirstVideoItem(tracks).startTime

\* the step of togglePlayPause that starts a session
PlayStep == mounted /\ ~isPlaying /\ TogglePlayPause

\* the preview element plays clip from the source position of the timeline time p
VideoPlays(v, clip, p) ==
    /\ ~v.paused
    /\ v.src = clip.id
    /\ v.startedAt = now
    /\ v.time = Min(clip.clipStartOffset + (p - clip.startTime), clip.duration)

\* a player of ps plays the clip at place j of track i from the source position of p
AudioPlays(ps, i, j, p) ==
    \E e \in ps :
        /\ e.track = tracks[i].id
        /\ e.item = tracks[i].items[j].id
        /\ e.startedAt = now
        /\ ~e.paused
        /\ e.time = tracks[i].items[j].clipStartOffset + (p - tracks[i].items[j].startTime)

\* the players a step starts
StartedPlayers == audios' \ audios

\* C6 as stated: on Stopped -> Playing at p, on every track the clip selected as
\* active at p (the first clip in track order whose window contains p) is sought
\* to sourceOffset + (p - timelineStart) and played, and no clip whose window
\* does not contain p is started.
C6_PlayStartsActiveClips ==
    [][PlayStep =>
          /\ HasActiveVideoClip(currentTime) =>
                VideoPlays(video', ActiveVideoClip(currentTime), currentTime)
          /\ \A i \in DOMAIN tracks :
                (tracks[i].type = "audio" /\ ContainingPlaces(tracks[i].items, currentTime) # {})
                   => AudioPlays(StartedPlayers, i,
                                 SetMin(ContainingPlaces(tracks[i].items, currentTime)),
                                 currentTime)
          /\ \A e \in StartedPlayers :
                \E i \in DOMAIN tracks : \E j \in DOMAIN tracks[i].items :
                    /\ e.track = tracks[i].id /\ e.item = tracks[i].items[j].id
                    /\ Contains(tracks[i].items[j], currentTime)
          /\ ~video'.paused =>
                \E i \in DOMAIN tracks : \E j \in DOMAIN tracks[i].items :
                    /\ video'.src = tracks[i].items[j].id
                    /\ Contains(tracks[i].items[j], currentTime)]_vars

\* C6 amended: play at p seeks and plays the first clip of the first video track
\* when its window contains p, and no other video clip; it seeks and plays every
\* audio clip of every audio track whose window contains p; it starts no clip
\* whose window does not contain p.
C6_PlayStartsFirstVideoAndAllAudio ==
    [][PlayStep =>
          /\ IF HasFirstVideoItem(tracks) /\ Contains(FirstVideoItem(tracks), currentTime)
             THEN VideoPlays(video', FirstVideoItem(tracks), currentTime)
             ELSE video'.paused
          /\ \A i \in DOMAIN tracks : \A j \in DOMAIN tracks[i].items :
                (tracks[i].type = "audio" /\ Contains(tracks[i].items[j], currentTime))
                   => AudioPlays(StartedPlayers, i, j, currentTime)
          /\ \A e \in StartedPlayers :
                \E i \in DOMAIN tracks : \E j \in DOMAIN tracks[i].items :
                    /\ e.track = tracks[i].id /\ e.item = tracks[i].items[j].id
                    /\ tracks[i].type = "audio"
                    /\ Contains(tracks[i].items[j], currentTime)]_vars

\* a session started inside a moved audio clip plays it from its source position
C6_Witness ==
    /\ isPlaying /\ playbackStartTimeRef = now
    /\ \E e \in audios : \E i \in DOMAIN tracks : \E j \in DOMAIN tracks[i].items :
          /\ e.track = tracks[i].id /\ e.item = tracks[i].items[j].id
          /\ tracks[i].items[j].startTime > 0
          /\ e.startedAt = now /\ ~e.paused
          /\ e.time = currentTime - tracks[i].items[j].startTime

\* C7: while Playing, every tick publishes the position recorded at play start
\* plus the wall-clock time elapsed since play start (the interval was installed
\* at play start, so its handle is that instant); the published position of a
\* session never decreases, whatever the clocks of the media elements show.
C7_TickPublishesWallClockPosition ==
    [][(isPlaying /\ TimelineTick) =>
          /\ \E iv \in intervals :
                /\ iv.handle \in timelineIntervalRef
                /\ currentTime' = iv.startTimelinePosition + (now - iv.handle)
          /\ currentTime' >= currentTime]_vars

\* a second tick of a session that plays a moved video clip: the published
\* position is 200 ms past the start position and differs from the media clock
C7_Witness ==
    /\ isPlaying
    /\ now = playbackStartTimeRef + 2 * TickMs
    /\ \E iv \in intervals : currentTime = iv.startTimelinePosition + 2 * TickMs
    /\ ~video.paused
    /\ video.time + (now - video.startedAt) # currentTime

\* the players a play step starts for the clips of track i
StartedOnTrack(i) == {e \in StartedPlayers : e.track = tracks[i].id}

\* C8 as stated: when clips of one track overlap at t, play starts the first clip
\* in track order whose window contains t and no later clip of that track.
C8_OnlyFirstOverlappingClipPlays ==
    [][PlayStep =>
          /\ \A i \in DOMAIN tracks : \A j \in DOMAIN tracks[i].items :
                tracks[i].type = "audio" =>
                   (AudioPlays(StartedPlayers, i, j, currentTime)
                      <=> (/\ ContainingPlaces(tracks[i].items, currentTime) # {}
                           /\ j = SetMin(ContainingPlaces(tracks[i].items, currentTime))))
          /\ ~video'.paused <=> HasActiveVideoClip(currentTime)
          /\ HasActiveVideoClip(currentTime) => video'.src = ActiveVideoClip(currentTime).id]_vars

\* C8 amended: there is no tie-break on an audio track: play starts one player for
\* every clip of the track whose window contains t, overlapping or not; on the
\* video side the preview element plays exactly when the first clip of the first
\* video track contains t, whatever later clips contain t.
C8_EveryOverlappingAudioClipPlays ==
    [][PlayStep =>
          /\ \A i \in DOMAIN tracks :
                tracks[i].type = "audio" =>
                   /\ Cardinality(StartedOnTrack(i))
                         = Cardinality(ContainingPlaces(tracks[i].items, currentTime))
                   /\ {e.item : e \in StartedOnTrack(i)}
                         = {tracks[i].items[j].id :
                               j \in ContainingPlaces(tracks[i].items, currentTime)}
          /\ ~video'.paused <=>
                (HasFirstVideoItem(tracks) /\ Contains(FirstVideoItem(tracks), currentTime))
          /\ ~video'.paused => video'.src = FirstVideoItem(tracks).id]_vars

\* two overlapping clips of one audio track were started together
C8_Witness ==
    /\ isPlaying /\ playbackStartTimeRef = now
    /\ \E e1, e2 \in audios :
          /\ e1.track = e2.track /\ e1.item # e2.item
          /\ e1.startedAt = now /\ e2.startedAt = now
          /\ ~e1.paused /\ ~e2.paused

\* the clips that sound: <<track id, clip id>> of every running audio player, and
\* of the preview element while it runs
PlayingClips ==
    {<<e.track, e.item>> : e \in PlayingAudios}
       \cup (IF VideoPlaying THEN {<<"preview", video.src>>} ELSE {})

\* the clips that seeking to t and then playing starts on the timeline trs
SeekThenPlayClips(trs, t) ==
    {<<trs[i].id, trs[i].items[j].id>> : <<i, j>> \in
        {pl \in UNION {{<<i, j>> : j \in DOMAIN trs[i].items} : i \in DOMAIN trs} :
            /\ trs[pl[1]].type = "audio"
            /\ Contains(trs[pl[1]].items[pl[2]], t)
            /\ SourcePosition(trs[pl[1]].items[pl[2]], t) < trs[pl[1]].items[pl[2]].duration}}
       \cup (IF /\ HasFirstVideoItem(trs)
                /\ Contains(FirstVideoItem(trs), t)
                /\ SourcePosition(FirstVideoItem(trs), t) < FirstVideoItem(trs).duration
             THEN {<<"preview", FirstVideoItem(trs).id>>} ELSE {})

\* no timer is due: every callback of the current instant has run
Settled ==
    /\ \A tm \in timeouts : tm.due > now
    /\ \A iv \in intervals : iv.due > now

\* C9: when a session has naturally reached position t (the tick has published
\* it and every timer due has fired) on a timeline that was not edited since the
\* session started, the clips that play are the clips that seeking to t and
\* playing would start.
C9_SeekThenPlayRoundTrip ==
    (isPlaying /\ mounted /\ Settled) =>
        \A iv \in intervals :
            (/\ iv.handle \in timelineIntervalRef
             /\ iv.tracks = tracks
             /\ currentTime > iv.startTimelinePosition)
               => PlayingClips = SeekThenPlayClips(tracks, currentTime)

\* the timeline holds one clip, an untrimmed video clip at 0 on the first video
\* track, and the preview element holds its source
SingleVideoClip ==
    /\ HasFirstVideoItem(tracks)
    /\ AllItems(tracks) = {FirstVideoItem(tracks)}
    /\ Len(VideoTracks(tracks)[1].items) = 1
    /\ FirstVideoItem(tracks).startTime = 0
    /\ FirstVideoItem(tracks).clipStartOffset = 0
    /\ FirstVideoItem(tracks).clipDuration = FirstVideoItem(tracks).duration
    /\ pendingLoads = {}

\* C10: with a single video clip {0, d, 0, d}, playing after a seek to t < d puts
\* the preview element at source time t, and the session stops automatically
\* (Stopped, video paused, tick cleared) at the tick that publishes a position
\* >= d, and at no earlier tick.
C10_SingleClipStopsAtItsEnd ==
    [][SingleVideoClip =>
          /\ (PlayStep /\ currentTime < FirstVideoItem(tracks).clipDuration)
                => VideoPlays(video', FirstVideoItem(tracks), currentTime)
          /\ (isPlaying /\ TimelineTick /\ \A iv \in intervals : iv.tracks = tracks)
                => /\ ~isPlaying' <=> currentTime' >= FirstVideoItem(tracks).clipDuration
                   /\ ~isPlaying' => (video'.paused /\ intervals' = {})]_vars


\* the clips of the video and audio tracks
MediaClips ==
    UNION {Range(tracks[i].items) : i \in {k \in DOMAIN tracks : tracks[k].type \in MediaTypes}}

GestureClip(trs, d) ==
    LET i == CHOOSE k \in DOMAIN trs : trs[k].id = d.trackId
    IN CHOOSE item \in Range(trs[i].items) : item.id = d.itemId

\* a mousemove of a gesture of the given type
DragStep(d, type) == d \in dragData /\ d.type = type /\ MouseMove

\* C12: a start trim shifts timelineStart and sourceOffset by the same amount
\* and shrinks clipDuration by that amount, never below one second, so the
\* timeline end of the clip stays where it was
C12_TrimStartShiftsStartAndOffset ==
    [][\A d \in dragData : DragStep(d, "resize-start") =>
          LET before == GestureClip(d.tracks, d)
              after == GestureClip(tracks', d)
              amount == after.startTime - before.startTime
          IN /\ after.clipStartOffset = before.clipStartOffset + amount
             /\ after.clipDuration = before.clipDuration - amount
             /\ after.clipDuration >= MinClipSec * Sec
             /\ ItemEnd(after) = ItemEnd(before)]_vars


\* C13: after a start trim by any delta, positive or negative, the clip still
\* ends inside its source (sourceOffset + clipDuration <= sourceDuration) and
\* starts at or after timeline zero
C13_TrimStartStaysInsideSource ==
    [][\A d \in dragData : DragStep(d, "resize-start") =>
          LET after == GestureClip(tracks', d)
          IN /\ after.clipStartOffset + after.clipDuration <= after.duration
             /\ after.startTime >= 0]_vars


\* the gesture holds a clip of a video or audio track
OnMediaTrack(d) ==
    \E i \in DOMAIN d.tracks : d.tracks[i].id = d.trackId /\ d.tracks[i].type \in MediaTypes

\* C14: an end trim of a media clip changes nothing of the clip but
\* clipDuration, and leaves one second <= clipDuration <= sourceDuration -
\* sourceOffset
C14_TrimEndKeepsClipInsideSource ==
    [][\A d \in dragData : DragStep(d, "resize-end") /\ OnMediaTrack(d) =>
          LET before == GestureClip(d.tracks, d)
              after == GestureClip(tracks', d)
          IN /\ after = [before EXCEPT !.clipDuration = after.clipDuration]
             /\ MinClipSec * Sec <= after.clipDuration
             /\ after.clipDuration <= after.duration - after.clipStartOffset]_vars


\* C15: a move sets timelineStart to the requested start, the start of the
\* gesture plus the dragged distance, raised to 0 when negative and with no
\* upper limit; clipDuration and sourceOffset stay
C15_MoveClampsAtZeroOnly ==
    [][\A d \in dragData : \A deltaTime \in DeltaTimes :
          d.type = "move" /\ HandleMouseMove(deltaTime) =>
             LET current == GestureClip(tracks, d)
                 after == GestureClip(tracks', d)
                 requested == d.initialStartTime + deltaTime
             IN /\ after.startTime = (IF requested < 0 THEN 0 ELSE requested)
                /\ after.clipDuration = current.clipDuration
                /\ after.clipStartOffset = current.clipStartOffset]_vars

\* a clip has been moved to start beyond the end of the timeline
C15_Witness ==
    \E d \in dragData :
        /\ d.type = "move"
        /\ GestureClip(tracks, d).startTime > d.initialStartTime
        /\ GestureClip(tracks, d).startTime >= d.duration
        /\ d.duration > 0


\* C16: removing a clip is idempotent: once a clip has been removed, removing
\* the same id again (an id that is now absent) leaves the tracks, the media
\* library and the captions exactly as the first removal left them
C16_RemoveClipIsIdempotent ==
    [][\A i \in DOMAIN tracks : \A j \in DOMAIN tracks[i].items :
          LET trackId == tracks[i].id
              itemId == tracks[i].items[j].id
          IN HandleItemRemoval(trackId, itemId) =>
                /\ RemoveFromTracks(tracks', trackId, itemId) = tracks'
                /\ WithoutId(mediaFiles', itemId) = mediaFiles'
                /\ WithoutId(captions', itemId) = captions'
                /\ \A k \in DOMAIN tracks' :
                      tracks'[k].id = trackId =>
                         \A item \in Range(tracks'[k].items) : item.id # itemId]_vars

\* a clip has been removed from a timeline that still holds another clip
C16_Witness ==
    \E tm \in durationTimeouts :
        /\ AllItems(tracks) # {}
        /\ AllItems(tracks) \subseteq AllItems(tm.tracks)
        /\ AllItems(tracks) # AllItems(tm.tracks)
        /\ Len(mediaFiles) > 0


\* the timeline ends of the clips of the current tracks
ClipEnds == {item.startTime + item.clipDuration : item \in AllItems(tracks)}

\* C17: the total duration of a timeline is the greatest clip end or 60 seconds,
\* whichever is greater: it is at least 60 s and at least every clip end, and it
\* is 60 s or one of the clip ends, so only the tracks determine it
C17_TotalDurationIsMaxOfEndsAndSixty ==
    LET total == calculateTimelineDuration(tracks)
    IN /\ total >= 60 * 1000
       /\ \A end \in ClipEnds : total >= end
       /\ total = 60 * 1000 \/ total \in ClipEnds

\* a timeline whose last clip ends after 60 s, and one more clip ending before
C17_Witness ==
    /\ \E end \in ClipEnds : end > 60 * 1000
    /\ \E end \in ClipEnds : end < 60 * 1000
    /\ calculateTimelineDuration(tracks) > 60 * 1000


\* a step that completes a timeline mutation: the clip of an import is added, a
\* drag moves or trims a clip, a track is added or removed, or the duration
\* recalculation a clip removal scheduled runs
MutationCompletes ==
    MediaLoaded \/ MouseMove \/ NewTrack \/ DeleteTrack \/ DurationTimeout

\* C18: after every mutation of the timeline the published duration is the
\* total duration of the tracks as that mutation left them
C18_DurationRecomputedOnEveryMutation ==
    [][MutationCompletes => duration' = calculateTimelineDuration(tracks')]_vars


\* a step that adds a clip to the timeline: the clip of an import or the clip
\* of a new caption
ClipAdded == MediaLoaded \/ AddCaption

\* C19: the total duration of a timeline is never below 60 seconds, and adding
\* a clip never lowers it
C19_TotalDurationGrowsWithAddedClips ==
    [][ClipAdded =>
          /\ calculateTimelineDuration(tracks') >= calculateTimelineDuration(tracks)
          /\ calculateTimelineDuration(tracks') >= 60 * 1000
          /\ calculateTimelineDuration(tracks) >= 60 * 1000]_vars

\* a clip ending before 60 s has been added to a timeline that ends after 60 s
C19_Witness ==
    /\ Len(mediaFiles) >= 2
    /\ mediaFiles[1].duration > 60 * 1000
    /\ mediaFiles[2].duration < 60 * 1000
    /\ {mediaFiles[1], mediaFiles[2]} \subseteq AllItems(tracks)


\* the places <<track, position>> of the clips on the subtitle tracks
SubtitlePlaces ==
    UNION {{<<i, j>> : j \in DOMAIN tracks[i].items} :
              i \in {k \in DOMAIN tracks : tracks[k].type = "subtitle"}}

\* C20: the captions and the clips of the subtitle tracks correspond one to one
\* by id, and each clip starts at its caption's startTime and ends at its
\* caption's endTime
C20_CaptionsMatchSubtitleClips ==
    /\ \A k \in DOMAIN captions :
          \E p \in SubtitlePlaces :
             LET clip == tracks[p[1]].items[p[2]]
             IN /\ clip.id = captions[k].id
                /\ clip.startTime = captions[k].startTime
                /\ clip.startTime + clip.clipDuration = captions[k].endTime
                /\ \A q \in SubtitlePlaces :
                      tracks[q[1]].items[q[2]].id = captions[k].id => q = p
    /\ \A p \in SubtitlePlaces :
          \E k \in DOMAIN captions :
             /\ captions[k].id = tracks[p[1]].items[p[2]].id
             /\ \A m \in DOMAIN captions : captions[m].id = captions[k].id => m = k


\* the positions in the caption list of the captions whose interval, both ends
\* included, holds the published position
WithinCaption == {k \in DOMAIN captions :
                     currentTime \in captions[k].startTime .. captions[k].endTime}

\* C21: the overlay shows a caption exactly when startTime <= currentTime <=
\* endTime, both bounds inclusive, and shows each such caption once
C21_VisibleIffWithinInclusiveBounds ==
    LET shown == VisibleCaptions(captions, currentTime)
    IN /\ \A k \in DOMAIN captions :
             (\E m \in DOMAIN shown : shown[m] = captions[k]) <=> k \in WithinCaption
       /\ Len(shown) = Cardinality(WithinCaption)

\* the published position is the endTime of a caption, and the overlay shows it
C21_Witness ==
    \E k \in DOMAIN captions :
        /\ captions[k].endTime = currentTime
        /\ captions[k].startTime < currentTime
        /\ \E m \in DOMAIN VisibleCaptions(captions, currentTime) :
              VisibleCaptions(captions, currentTime)[m] = captions[k]

\* C22: whatever the pointer displacement of a caption drag, x and y of every
\* caption lie in [0, 100]
C22_CaptionPositionWithinPercentRange ==
    \A k \in DOMAIN captions :
        /\ 0 <= captions[k].x /\ captions[k].x <= 100
        /\ 0 <= captions[k].y /\ captions[k].y <= 100

\* a drag has pushed a caption to the right edge and over the top edge
C22_Witness ==
    \E d \in captionDrag : \E k \in DOMAIN captions :
        /\ captions[k].id = d.id
        /\ captions[k].x = 100
        /\ captions[k].y = 0


\* no video track holds a clip
NoVideoClip == \A i \in DOMAIN tracks : tracks[i].type = "video" => tracks[i].items = <<>>

\* the exportVideo calls a step starts
NewExports == export' \ export

\* C23: an export started while no video track holds a clip fails at once with
\* one alert and allocates nothing: no canvas, media element, audio graph,
\* recorder, interval or timer, no download, and isExporting is false after it
C23_ExportWithoutVideoAllocatesNothing ==
    [][NoVideoClip /\ ExportVideo =>
          /\ NewExports # {}
          /\ \A e \in NewExports :
                /\ e.alerts = 1
                /\ ~e.canvas
                /\ e.sourceVideo = "none"
                /\ e.audioElements = <<>>
                /\ e.audioContext = "none"
                /\ e.recorder = "none"
                /\ ~e.frameInterval
                /\ e.stopTimers = {}
                /\ e.artifacts = 0
          /\ ~isExporting'
          /\ timeouts' = timeouts /\ intervals' = intervals
          /\ durationTimeouts' = durationTimeouts]_vars

\* an export was refused on a timeline that holds audio clips only
C23_Witness ==
    /\ \E e \in export : e.phase = "rejected"
    /\ NoVideoClip
    /\ \E i \in DOMAIN tracks : tracks[i].type = "audio" /\ tracks[i].items # <<>>


\* the exportVideo call e as the step leaves it
After(e) == CHOOSE x \in export' : x.call = e.call

\* min(30 seconds, the duration of the exported video clip)
StopLimit(e) ==
    IF e.videoItem[1].clipDuration < 30 * 1000 THEN e.videoItem[1].clipDuration ELSE 30 * 1000

\* exportTime, which is frames / 30 with a rounding error of sign drift, has
\* reached the stop limit
LimitReached(x) ==
    \/ x.frames * 1000 > 30 * StopLimit(x)
    \/ x.frames * 1000 = 30 * StopLimit(x) /\ x.drift >= 0

\* C24: a running export stops at the frame at which its export time reaches
\* min(30 s, clip duration) and at no other: the render interval is cleared,
\* the recorder stopped, every offscreen audio element paused and the audio
\* context closed; the recorder's stop then produces the one download
C24_ExportStopsAtLimitWithOneArtifact ==
    [][\A e \in export :
          /\ ExportFrame(e) =>
                /\ After(e).frameInterval <=> ~LimitReached(After(e))
                /\ After(e).artifacts = 0
                /\ ~After(e).frameInterval =>
                      /\ After(e).recorder \notin {"recording", "none"}
                      /\ \A i \in DOMAIN After(e).audioElements :
                            After(e).audioElements[i] = "paused"
                      /\ After(e).audioContext = "closed"
          /\ (e.frameInterval /\ ~ExportFrame(e)) => After(e).frameInterval
          /\ ExportRecorderStopped(e) =>
                /\ ~e.frameInterval /\ LimitReached(e)
                /\ e.artifacts = 0 /\ After(e).artifacts = 1
          /\ After(e).artifacts # e.artifacts => ExportRecorderStopped(e)]_vars

\* the export of a clip longer than 30 s, with an audio clip, has finished
\* after 900 frames
C24_Witness ==
    \E e \in export :
        /\ e.phase = "done"
        /\ e.videoItem[1].clipDuration > 30 * 1000
        /\ e.frames = 30 * 30
        /\ e.audioItems # <<>>
        /\ e.artifacts = 1


\* the export e met a failure: its catch ran, its source video or one of its
\* audio sources failed to load, or a render callback threw
ExportFailed(e) ==
    \/ e.phase = "failed"
    \/ e.sourceVideo = "error"
    \/ \E i \in DOMAIN e.audioElements : e.audioElements[i] = "error"
    \/ e.uncaught

\* the export e holds nothing that runs: no open audio context, no loading or
\* playing element, no render interval, no stop timer, no recording recorder
ExportReleased(e) ==
    /\ e.audioContext # "open"
    /\ e.sourceVideo \notin {"loading", "playing"}
    /\ \A i \in DOMAIN e.audioElements : e.audioElements[i] \notin {"loading", "playing"}
    /\ ~e.frameInterval
    /\ e.stopTimers = {}
    /\ e.recorder # "recording"

\* C25: an export that met a failure at any step has released everything it
\* acquired, has reported exactly one failure, offers no download, and (being
\* the last export started) has left isExporting false
C25_FailedExportReleasesEverything ==
    \A e \in export :
        ExportFailed(e) =>
            /\ ExportReleased(e)
            /\ e.alerts = 1
            /\ e.artifacts = 0
            /\ (\A x \in export : x.call <= e.call) => ~isExporting


\* C26: an export that starts takes as its visual source the clip the preview
\* plays, the first clip of the first video track, and no clip of another
\* video track
C26_ExportSourceIsFirstClipOfFirstVideoTrack ==
    [][\A e \in NewExports :
          e.phase # "rejected" =>
             /\ HasFirstVideoItem(tracks)
             /\ e.videoItem[1] = FirstVideoItem(tracks)]_vars


\* the captions the preview shows while it displays the video instant that the
\* export e draws in its frame number n: the instant n/30 s into the clip is
\* on screen at timeline time startTime + n/30 s (times 3 to stay in integers)
PreviewCaptionsAtFrame(e, n) ==
    LET t3 == 3 * e.videoItem[1].startTime + 100 * n
    IN {e.captions[k].id : k \in
          {m \in DOMAIN e.captions :
              3 * e.captions[m].startTime <= t3 /\ t3 <= 3 * e.captions[m].endTime}}

\* C27: every frame of the export that shows the video clip carries exactly
\* the captions the preview shows over the same instant of the clip
C27_ExportDrawsCaptionsOfPreview ==
    [][\A e \in export :
          (ExportFrame(e) /\ After(e).videoDrawn) =>
              After(e).drawn = PreviewCaptionsAtFrame(e, e.frames)]_vars


TrackKinds == {"video", "audio", "subtitle"}
TracksOfKind(trs, kind) == {k \in DOMAIN trs : trs[k].type = kind}
TrackIds(trs) == {trs[k].id : k \in DOMAIN trs}

\* C28: the timeline has at least one track of each kind before and after
\* every step, and a step removes a track only if it is not the thumbnail
\* track and more than one track of its kind existed
C28_TrackRemovedOnlyWhileAnotherOfItsKind ==
    [][/\ \A kind \in TrackKinds :
             /\ TracksOfKind(tracks, kind) # {}
             /\ TracksOfKind(tracks', kind) # {}
       /\ \A i \in DOMAIN tracks :
             tracks[i].id \notin TrackIds(tracks') =>
                /\ tracks[i].id # "thumbnail-track"
                /\ Cardinality(TracksOfKind(tracks, tracks[i].type)) > 1]_vars

\* the original video track was removed and the added one is the only one left
C28_Witness ==
    /\ "video-track" \notin TrackIds(tracks)
    /\ Cardinality(TracksOfKind(tracks, "video")) = 1


\* the ids of the clips on the tracks trs
ClipIdsOn(trs) == UNION {{trs[k].items[j].id : j \in DOMAIN trs[k].items} : k \in DOMAIN trs}

\* C29: after a step that removes a track, no clip that was only on that
\* track remains in the media library or among the captions
C29_RemovedTrackTakesItsClips ==
    [][\A i \in DOMAIN tracks :
          tracks[i].id \notin TrackIds(tracks') =>
             \A j \in DOMAIN tracks[i].items :
                LET id == tracks[i].items[j].id
                IN id \notin ClipIdsOn(tracks') =>
                      /\ \A m \in DOMAIN mediaFiles' : mediaFiles'[m].id # id
                      /\ \A c \in DOMAIN captions' : captions'[c].id # id]_vars


\* C30: a step taken while Playing that changes the published position is a
\* tick of the playback interval, or it leaves Playing
C30_OnlyTickMovesPositionWhilePlaying ==
    [][(isPlaying /\ currentTime' # currentTime) => (TimelineTick \/ ~isPlaying')]_vars

\* playback goes on at a position that only a tick can have published
C30_Witness ==
    /\ isPlaying
    /\ currentTime \notin SeekTimes \cup {0}
    /\ \E iv \in intervals : iv.handle \in timelineIntervalRef /\ currentTime > iv.startTimelinePosition


\* the places <<track, position>> of the clips on the video and audio tracks
MediaPlaces(trs) ==
    UNION {{<<i, j>> : j \in DOMAIN trs[i].items} :
              i \in {k \in DOMAIN trs : trs[k].type \in MediaTypes}}

\* C31: no two clips on the video and audio tracks share an id, and the step
\* that adds an imported file to the timeline creates exactly one clip
C31_ImportedFileIsOneClipWithUniqueId ==
    [][/\ \A p \in MediaPlaces(tracks'), q \in MediaPlaces(tracks') :
             tracks'[p[1]].items[p[2]].id = tracks'[q[1]].items[q[2]].id => p = q
       /\ MediaLoaded =>
             Cardinality(MediaPlaces(tracks')) = Cardinality(MediaPlaces(tracks)) + 1]_vars


\* the entries of the media library, and the clips of the video and audio
\* tracks, that a step has created
NewLibraryEntries ==
    {mediaFiles'[m] : m \in {k \in DOMAIN mediaFiles' :
                                \A n \in DOMAIN mediaFiles : mediaFiles[n].id # mediaFiles'[k].id}}
NewMediaClips ==
    {tracks'[p[1]].items[p[2]] : p \in {q \in MediaPlaces(tracks') :
          tracks'[q[1]].items[q[2]].id \notin ClipIdsOn(tracks)}}

AllPlaces(trs) == UNION {{<<i, j>> : j \in DOMAIN trs[i].items} : i \in DOMAIN trs}

\* C33: every clip that a step puts on a track has the kind of that track, and
\* a step that addresses a track id that does not exist leaves the tracks as
\* they are
C33_ClipAddedOnlyToTrackOfItsKind ==
    [][/\ \A p \in AllPlaces(tracks') :
             tracks'[p[1]].items[p[2]].id \notin ClipIdsOn(tracks) =>
                tracks'[p[1]].items[p[2]].type = tracks'[p[1]].type
       /\ (onThumbnailCreate /\ "thumbnail-track" \notin TrackIds(tracks)) =>
             tracks' = tracks]_vars


\* C39: after every onThumbnailCreate a track with the id thumbnail-track
\* exists and holds exactly one clip, the one just created, which starts at 0
\* and lasts 2 seconds
C39_ThumbnailReplacesThumbnailTrackClip ==
    [][onThumbnailCreate =>
          \E i \in DOMAIN tracks' :
             /\ tracks'[i].id = "thumbnail-track"
             /\ Len(tracks'[i].items) = 1
             /\ tracks'[i].items[1].id = nextId
             /\ tracks'[i].items[1].startTime = 0
             /\ tracks'[i].items[1].clipDuration = 2 * Sec]_vars


\* C34: while the editor is mounted, isPlaying holds exactly when one tick
\* interval is installed; when it is not Playing (or is unmounted) no
\* interval, no stop timer and no audio player is left
C34_PlayingFlagAgreesWithClock ==
    /\ mounted => (isPlaying <=> Cardinality(intervals) = 1)
    /\ (~mounted \/ ~isPlaying) =>
          /\ intervals = {}
          /\ timeouts = {}
          /\ audios = {}


C36_ExportEventuallyCompletes ==
    isExporting ~> ~isExporting


\* C37: an export that has ended, with its download or with a reported
\* failure, has no render interval and no audio stop timer pending
C37_EndedExportLeavesNoTimer ==
    \A e \in export :
        e.phase \in {"done", "failed"} => (~e.frameInterval /\ e.stopTimers = {})


\* C38: after a step that removes a clip from an audio track while the editor
\* is Playing, no audio player and no stop timer of that clip on that track is
\* left
C38_RemovedClipLeavesRunningSession ==
    [][\A i \in DOMAIN tracks :
          \A j \in DOMAIN tracks[i].items :
             LET trackId == tracks[i].id
                 itemId == tracks[i].items[j].id
             IN (isPlaying /\ tracks[i].type = "audio" /\ HandleItemRemoval(trackId, itemId)) =>
                   /\ \A e \in audios' : ~(e.item = itemId /\ e.track = trackId)
                   /\ \A tm \in timeouts' : ~(tm.item = itemId /\ tm.elem.track = trackId)]_vars

====
